---- MODULE Spec2Model ----
(***************************************************************************)
(* Backend-process supervisor of the Electron main process (src/main.js):  *)
(* port check, launch of the Flask child, readiness detection on the       *)
(* child's streams, HTTP health polling, and shutdown.                     *)
(*                                                                         *)
(* Every callback of the event loop is one action.  A promise continuation *)
(* (.then/.catch) runs as a microtask right after the callback that        *)
(* settles the promise, so it is part of that callback's action.           *)
(* Console output and startupOutput (used only in console output) are not  *)
(* modelled.  Time is modelled by the order of timer callbacks.            *)
(***************************************************************************)
EXTENDS Naturals, Integers, Sequences, FiniteSets, TLC

\* ------------------------------------------------------------- bounds
\* how many times before-quit (and so stopFlaskServer) may run
MaxStops == 2
\* how many times the main window may be created
MaxWindows == 2
\* largest maxRetries of a stand-alone checkFlaskServer call (SpecPoll)
MaxBudget == 5
\* a probe times out only while at most this many probes are outstanding
\* (scheduled, in flight or destroyed) over all checkFlaskServer calls
MaxOverlap == 1
\* most lines of a drawn .env file
MaxEnvLines == 3
\* most places at which the child's output is cut into data events
MaxCuts == 1

\* --------------------------------------------------- program constants
\* checkFlaskServer(10, 1000) on the signature path
SigRetries == 10
\* checkFlaskServer(5, 1000) on the timeout-fallback path
FallbackRetries == 5
\* process.env.FLASK_PORT || 5000
DefaultPort == 5000

VARIABLES
    app,            \* position of the app.whenReady handler / application
    portDialog,     \* button picked in the port-occupied dialog, -1: not shown
    isQuitting,     \* app.isQuitting
    flaskProcess,   \* the global handle: "null" or "child"
    child,          \* the OS child process as the event loop sees it
    serverStarted,  \* local flag of startFlaskServer
    startup,        \* the promise returned by startFlaskServer
    startupTimer,   \* the 15 s fallback timer of startFlaskServer
    poll,           \* one record per checkFlaskServer call
    graceTimers,    \* pending 5 s timers of stopFlaskServer
    mainWindow,     \* "null", "loading" (ready-to-show pending), "shown"
    effects,        \* log of the outward effects (spawn, kill, send, dialog)
    calc            \* inputs and result of the function under study; NoCalc
                    \* in the event-loop specifications

vars == <<app, portDialog, isQuitting, flaskProcess, child, serverStarted,
          startup, startupTimer, poll, graceTimers, mainWindow, effects,
          calc>>

\* the checkFlaskServer calls: from the stdout handler, from the fallback
\* timer, and a stand-alone call with any budget (SpecPoll only)
Seqs == {"sig", "fallback", "direct"}

IdlePoll == [st |-> "idle", max |-> 0, retries |-> 0, timers |-> 0,
             inflight |-> 0, destroyed |-> 0, probes |-> 0, ok200 |-> FALSE]

NoEffects == [spawns |-> 0, sigterm |-> 0, sigkill |-> 0, readySent |-> 0,
              failDialogs |-> 0, exitReports |-> 0, stops |-> 0,
              windows |-> 0, threw |-> FALSE]

NoStartup == [state |-> "none", reason |-> "none", early |-> FALSE]

NoCalc == [fn |-> "none"]

Init ==
    /\ app = "launching"
    /\ portDialog = -1
    /\ isQuitting = FALSE
    /\ flaskProcess = "null"
    /\ child = "none"
    /\ serverStarted = FALSE
    /\ startup = NoStartup
    /\ startupTimer = "unarmed"
    /\ poll = [s \in Seqs |-> IdlePoll]
    /\ graceTimers = 0
    /\ mainWindow = "null"
    /\ effects = NoEffects
    /\ calc = NoCalc

\* ---------------------------------------------------- pure helpers

\* output.includes(pattern): a chunk is modelled by the set of signature
\* substrings it contains
Includes(output, pattern) == pattern \in output

ReadyPatterns == {"Running on", "Serving Flask", "Server starting"}
FatalPatterns == {"Address already in use", "Permission denied",
                  "ModuleNotFoundError", "ImportError"}

StdoutChunks == {{}} \cup {{p} : p \in ReadyPatterns}
StderrChunks == {{}} \cup {{p} : p \in FatalPatterns}

\* the test of the stdout handler
IsReadyOutput(output) ==
    \/ Includes(output, "Running on")
    \/ Includes(output, "Serving Flask")
    \/ Includes(output, "Server starting")

\* the test of the stderr handler
IsFatalOutput(output) ==
    \/ Includes(output, "Address already in use")
    \/ Includes(output, "Permission denied")
    \/ Includes(output, "ModuleNotFoundError")
    \/ Includes(output, "ImportError")

\* candidates that do not depend on the platform
PythonCommandsOnePlatform(platform) == <<"python3", "python">>

\* getPythonPath: the first candidate, in the platform's order, whose
\* version probe succeeds; "throw" when none does
PythonCommands(platform) ==
    IF platform = "win32" THEN <<"python", "python3", "py">>
                          ELSE <<"python3", "python">>

Platforms == {"win32", "linux"}
AllCommands == {"python", "python3", "py"}

RECURSIVE FirstWorking(_, _, _)
FirstWorking(cmds, i, working) ==
    IF i > Len(cmds) THEN "throw"
    ELSE IF cmds[i] \in working THEN cmds[i]
    ELSE FirstWorking(cmds, i + 1, working)

getPythonPath(platform, working) ==
    FirstWorking(PythonCommands(platform), 1, working)

\* isPortAvailable: the test server's 'listening' or 'error' event
ListenOutcomes == {"listening", "error"}
isPortAvailable(outcome) == outcome = "listening"

\* a promise whose every resolve()/reject() call takes effect
SettleAgain(pr, st, reason) ==
    [state |-> st, reason |-> reason, early |-> startupTimer # "fired"]

\* resolve()/reject() of the startFlaskServer promise: only the first
\* settlement counts.  early records whether the 15 s timer had fired.
Settle(pr, st, reason) ==
    IF pr.state = "pending"
    THEN [state |-> st, reason |-> reason, early |-> startupTimer # "fired"]
    ELSE pr

\* process.kill(signal) through the handle fp
Kill(fp, signal, e) ==
    IF fp = "null" THEN [e EXCEPT !.threw = TRUE]
    ELSE [e EXCEPT ![signal] = @ + 1]

\* ---------------------------------------------- environment overlay
\* A string is a sequence of one-character strings; envVars, process.env and
\* flaskEnv are functions from keys to values.

WhiteSpace == {" ", "\t", "\r"}

\* String.prototype.trim
RECURSIVE TrimStart(_)
TrimStart(s) ==
    IF s # <<>> /\ Head(s) \in WhiteSpace THEN TrimStart(Tail(s)) ELSE s

RECURSIVE TrimEnd(_)
TrimEnd(s) ==
    IF s # <<>> /\ s[Len(s)] \in WhiteSpace
    THEN TrimEnd(SubSeq(s, 1, Len(s) - 1))
    ELSE s

Trim(s) == TrimEnd(TrimStart(s))

\* String.prototype.split(sep) for a one-character separator
RECURSIVE Split(_, _)
Split(s, sep) ==
    IF \A i \in 1..Len(s) : s[i] # sep THEN <<s>>
    ELSE LET i == CHOOSE n \in 1..Len(s) :
                      s[n] = sep /\ \A j \in 1..(n - 1) : s[j] # sep
         IN <<SubSeq(s, 1, i - 1)>> \o Split(SubSeq(s, i + 1, Len(s)), sep)

\* a join that keeps only the first part: the value would stop at the second
\* separator
JoinFirstOnly(parts, sep) == IF parts = <<>> THEN <<>> ELSE parts[1]

\* Array.prototype.join(sep)
RECURSIVE Join(_, _)
Join(parts, sep) ==
    IF parts = <<>> THEN <<>>
    ELSE IF Len(parts) = 1 THEN parts[1]
    ELSE parts[1] \o <<sep>> \o Join(Tail(parts), sep)

\* String.prototype.startsWith for a one-character prefix
StartsWith(s, c) == s # <<>> /\ s[1] = c

\* {} and obj[k] = v
EmptyEnv == [k \in {} |-> <<>>]
Put(env, k, v) == [x \in DOMAIN env \cup {k} |-> IF x = k THEN v ELSE env[x]]

\* the body of the forEach callback of loadEnvFile
loadEnvLine(envVars, rawLine) ==
    LET line == Trim(rawLine) IN
    IF line # <<>> /\ ~StartsWith(line, "#")
    THEN LET parts == Split(line, "=")
             key == Head(parts)
             valueParts == Tail(parts)
         IN IF key # <<>> /\ Len(valueParts) > 0
            THEN Put(envVars, Trim(key), Trim(Join(valueParts, "=")))
            ELSE envVars
    ELSE envVars

RECURSIVE forEachLine(_, _, _)
forEachLine(lines, i, envVars) ==
    IF i > Len(lines) THEN envVars
    ELSE forEachLine(lines, i + 1, loadEnvLine(envVars, lines[i]))

\* loadEnvFile: {} when the file does not exist
loadEnvFile(exists, envContent) ==
    IF exists THEN forEachLine(Split(envContent, "\n"), 1, EmptyEnv)
    ELSE EmptyEnv

\* ------------------------------------------------- child environment

KeyPort == <<"F", "L", "A", "S", "K", "_", "P", "O", "R", "T">>
KeyHost == <<"F", "L", "A", "S", "K", "_", "H", "O", "S", "T">>
KeyDebug == <<"F", "L", "A", "S", "K", "_", "D", "E", "B", "U", "G">>
KeyUnbuffered == <<"P", "Y", "T", "H", "O", "N", "U", "N", "B", "U", "F", "F",
                   "E", "R", "E", "D">>

DefaultHost == <<"1", "2", "7", ".", "0", ".", "0", ".", "1">>

\* JavaScript values: a number or a string
Num(n) == [num |-> n]
Str(s) == [str |-> s]
IsNum(v) == "num" \in DOMAIN v

\* process.env[k] || d: d when the variable is unset or empty
OrDefault(env, k, d) ==
    IF k \in DOMAIN env /\ env[k] # <<>> THEN Str(env[k]) ELSE d

\* the constants FLASK_PORT (a string from the environment or the number
\* 5000) and FLASK_HOST
FLASK_PORT(processEnv) == OrDefault(processEnv, KeyPort, Num(DefaultPort))
FLASK_HOST(processEnv) == OrDefault(processEnv, KeyHost, Str(DefaultHost))

\* Number.prototype.toString in base 10; a string is its own toString
DigitChars == <<"0", "1", "2", "3", "4", "5", "6", "7", "8", "9">>

RECURSIVE Decimal(_)
Decimal(n) ==
    IF n < 10 THEN <<DigitChars[n + 1]>>
    ELSE Decimal(n \div 10) \o <<DigitChars[(n % 10) + 1]>>

toString(v) == IF IsNum(v) THEN Decimal(v.num) ELSE v.str

\* a spread in which the earlier source wins
SpreadEarlierWins(a, b) ==
    [k \in DOMAIN a \cup DOMAIN b |-> IF k \in DOMAIN a THEN a[k] ELSE b[k]]

\* {...a, ...b}
Spread(a, b) ==
    [k \in DOMAIN a \cup DOMAIN b |-> IF k \in DOMAIN b THEN b[k] ELSE a[k]]

\* the four properties written after the spreads
ExplicitEnv(processEnv, isDev) ==
    [k \in {KeyPort, KeyHost, KeyDebug, KeyUnbuffered} |->
        IF k = KeyPort THEN toString(FLASK_PORT(processEnv))
        ELSE IF k = KeyHost THEN FLASK_HOST(processEnv).str
        ELSE IF k = KeyDebug
             THEN (IF isDev THEN <<"T", "r", "u", "e">>
                            ELSE <<"F", "a", "l", "s", "e">>)
        ELSE <<"1">>]

\* const flaskEnv = {...process.env, ...envVars, FLASK_PORT: ..., ...}
flaskEnv(processEnv, envVars, isDev) ==
    Spread(Spread(processEnv, envVars), ExplicitEnv(processEnv, isDev))

\* the options of the health probe: hostname and port
probeTarget(processEnv) ==
    [hostname |-> FLASK_HOST(processEnv), port |-> FLASK_PORT(processEnv)]

\* --------------------------------------------------- checkFlaskServer

\* the promise executor: retries = 0, then check() issues the first probe
StartPoll(maxRetries) ==
    [st |-> "pending", max |-> maxRetries, retries |-> 0, timers |-> 0,
     inflight |-> 1, destroyed |-> 0, probes |-> 1, ok200 |-> FALSE]

\* retryCheck
retryCheck(p) ==
    LET r == p.retries + 1 IN
    IF r < p.max
    THEN [p EXCEPT !.retries = r, !.timers = @ + 1]
    ELSE [p EXCEPT !.retries = r,
                   !.st = IF @ = "pending" THEN "rejected" ELSE @]

\* a response callback that resolves on any status
OnResponseAnyStatus(p, statusCode) ==
    [p EXCEPT !.st = IF @ = "pending" THEN "resolved" ELSE @,
              !.ok200 = (statusCode = 200)]

\* a response callback that does nothing on a status other than 200
OnResponseDropsFailure(p, statusCode) ==
    IF statusCode = 200
    THEN [p EXCEPT !.st = IF @ = "pending" THEN "resolved" ELSE @,
                   !.ok200 = TRUE]
    ELSE p

\* the response callback
OnResponse(p, statusCode) ==
    IF statusCode = 200
    THEN [p EXCEPT !.st = IF @ = "pending" THEN "resolved" ELSE @,
                   !.ok200 = TRUE]
    ELSE retryCheck(p)

\* the .then/.catch attached to the checkFlaskServer call s, run when the
\* call settles
AfterPoll(s, new) ==
    LET old == poll[s]
        settled == old.st = "pending" /\ new.st # "pending" IN
    /\ poll' = [poll EXCEPT ![s] = new]
    /\ IF settled /\ s = "sig" THEN
          /\ startup' = Settle(startup,
                 IF new.st = "resolved" THEN "resolved" ELSE "rejected",
                 IF new.st = "resolved" THEN "none" ELSE "notResponding")
          /\ UNCHANGED serverStarted
       ELSE IF settled /\ s = "fallback" THEN
          /\ startup' = Settle(startup,
                 IF new.st = "resolved" THEN "resolved" ELSE "rejected",
                 IF new.st = "resolved" THEN "none" ELSE "notInTime")
          /\ serverStarted' = (IF new.st = "resolved" THEN TRUE
                               ELSE serverStarted)
       ELSE UNCHANGED <<startup, serverStarted>>

\* probes of call s that are scheduled, in flight or destroyed with their
\* 'error' event still to come
Outstanding(s) == poll[s].timers + poll[s].inflight + poll[s].destroyed

PollFrame == <<app, portDialog, isQuitting, flaskProcess, child,
               startupTimer, graceTimers, mainWindow, effects, calc>>

\* setTimeout(check, retryDelay) fires: check() issues the next probe
CheckTimer(s) ==
    /\ poll[s].timers > 0
    /\ AfterPoll(s, [poll[s] EXCEPT !.timers = @ - 1, !.inflight = @ + 1,
                                    !.probes = @ + 1])
    /\ UNCHANGED PollFrame

\* the probe's response arrives
ProbeResponse(s) ==
    /\ poll[s].inflight > 0
    /\ \E statusCode \in {200, 500} :
         AfterPoll(s, OnResponse([poll[s] EXCEPT !.inflight = @ - 1],
                                 statusCode))
    /\ UNCHANGED PollFrame

\* req 'error' (connection refused, reset)
ProbeError(s) ==
    /\ poll[s].inflight > 0
    /\ AfterPoll(s, retryCheck([poll[s] EXCEPT !.inflight = @ - 1]))
    /\ UNCHANGED PollFrame

\* req 'timeout': req.destroy(); retryCheck().  The destroyed request
\* reports 'error' (socket hang up) afterwards.
ProbeTimeout(s) ==
    /\ poll[s].inflight > 0
    /\ Outstanding("sig") + Outstanding("fallback") + Outstanding("direct")
          <= MaxOverlap
    /\ AfterPoll(s, retryCheck([poll[s] EXCEPT !.inflight = @ - 1,
                                               !.destroyed = @ + 1]))
    /\ UNCHANGED PollFrame

\* the 'error' event of a request destroyed by the timeout handler
DestroyedError(s) ==
    /\ poll[s].destroyed > 0
    /\ AfterPoll(s, retryCheck([poll[s] EXCEPT !.destroyed = @ - 1]))
    /\ UNCHANGED PollFrame

PollStep(s) ==
    \/ CheckTimer(s)
    \/ ProbeResponse(s)
    \/ ProbeError(s)
    \/ ProbeTimeout(s)
    \/ DestroyedError(s)

\* a stand-alone checkFlaskServer(maxRetries, delay) call
InitPoll ==
    /\ app = "launching"
    /\ portDialog = -1
    /\ isQuitting = FALSE
    /\ flaskProcess = "null"
    /\ child = "none"
    /\ serverStarted = FALSE
    /\ startup = NoStartup
    /\ startupTimer = "unarmed"
    /\ \E m \in 1..MaxBudget :
         poll = [s \in Seqs |-> IF s = "direct" THEN StartPoll(m)
                                ELSE IdlePoll]
    /\ graceTimers = 0
    /\ mainWindow = "null"
    /\ effects = NoEffects
    /\ calc = NoCalc

DirectCheckTimer == CheckTimer("direct")
DirectProbeResponse == ProbeResponse("direct")
DirectProbeError == ProbeError("direct")
DirectProbeTimeout == ProbeTimeout("direct")
DirectDestroyedError == DestroyedError("direct")

NextPoll ==
    \/ DirectCheckTimer
    \/ DirectProbeResponse
    \/ DirectProbeError
    \/ DirectProbeTimeout
    \/ DirectDestroyedError

SpecPoll == InitPoll /\ [][NextPoll]_vars

\* ------------------------------------------------------- supervisor

\* stopFlaskServer without its `if (flaskProcess)` guard
stopWithoutGuard(fp, e) == Kill(fp, "sigterm", [e EXCEPT !.stops = @ + 1])

\* stopFlaskServer: what it does to the effects log and to the grace timers
stopFlaskServerEffects(fp, e) ==
    IF fp # "null"
    THEN Kill(fp, "sigterm", [e EXCEPT !.stops = @ + 1])
    ELSE [e EXCEPT !.stops = @ + 1]

stopFlaskServerTimers(fp, g) == IF fp # "null" THEN g + 1 ELSE g

\* a 'close' handler that leaves the global handle in place
closeHandlerKeeps(fp) == fp

\* the 'close' handler of the child: flaskProcess = null
closeHandler(fp) == "null"

\* a handler that goes on after app.quit() (no `return`)
QuitChosenNever(choice) == FALSE

\* the button that makes the whenReady handler quit and return
\* (choice === 0, 'Quitter', in both dialogs)
QuitChosen(choice) == choice = 0

\* createWindow: a new BrowserWindow whose ready-to-show is pending
createWindow(e) == [e EXCEPT !.windows = @ + 1]

\* the synchronous part of startFlaskServer (the promise executor)
startFlaskServer(platform, working, scriptExists, spawnOk, e) ==
    IF getPythonPath(platform, working) = "throw" THEN
        /\ startup' = [state |-> "rejected", reason |-> "pythonNotFound",
                       early |-> TRUE]
        /\ effects' = e
        /\ UNCHANGED <<flaskProcess, child, startupTimer>>
    ELSE IF ~scriptExists THEN
        /\ startup' = [state |-> "rejected", reason |-> "scriptMissing",
                       early |-> TRUE]
        /\ effects' = e
        /\ UNCHANGED <<flaskProcess, child, startupTimer>>
    ELSE
        /\ flaskProcess' = "child"
        /\ child' = (IF spawnOk THEN "running" ELSE "spawnError")
        /\ effects' = [e EXCEPT !.spawns = @ + 1]
        /\ startupTimer' = "armed"
        /\ startup' = [state |-> "pending", reason |-> "none",
                       early |-> FALSE]

\* a whenReady handler that would run again in a started application
HandlerRunsAgain(a) == a \in {"launching", "ready"}

\* app.whenReady().then(handler): the handler runs once, when the
\* application has finished launching
HandlerPending(a) == a = "launching"

\* app.whenReady handler up to `await startFlaskServer()`, on a machine
\* whose platform is one of platforms and whose working interpreters are one
\* of workings
WhenReadyOn(platforms, workings) ==
    /\ HandlerPending(app)
    /\ \E outcome \in ListenOutcomes, choice \in {0, 1} :
         IF ~isPortAvailable(outcome) /\ QuitChosen(choice) THEN
            \* app.quit() emits before-quit, which calls stopFlaskServer
            /\ portDialog' = choice
            /\ app' = "aborted"
            /\ isQuitting' = TRUE
            /\ effects' = stopFlaskServerEffects(flaskProcess, effects)
            /\ graceTimers' = stopFlaskServerTimers(flaskProcess, graceTimers)
            /\ UNCHANGED <<flaskProcess, child, startup, startupTimer>>
         ELSE
            /\ portDialog' = (IF isPortAvailable(outcome) THEN -1 ELSE choice)
            /\ app' = "starting"
            /\ \E platform \in platforms, working \in workings,
                  scriptExists \in BOOLEAN, spawnOk \in BOOLEAN :
                 startFlaskServer(platform, working, scriptExists, spawnOk,
                                  effects)
            /\ UNCHANGED <<isQuitting, graceTimers>>
    /\ UNCHANGED <<serverStarted, poll, mainWindow>>

WhenReady ==
    /\ WhenReadyOn(Platforms, SUBSET AllCommands)
    /\ UNCHANGED calc

\* app.whenReady handler after `await startFlaskServer()`
StartupSettled ==
    /\ app = "starting"
    /\ startup.state \in {"resolved", "rejected"}
    /\ IF startup.state = "resolved" THEN
          /\ app' = "ready"
          /\ mainWindow' = "loading"
          /\ effects' = createWindow(effects)
          /\ UNCHANGED <<isQuitting, graceTimers>>
       ELSE \E choice \in {0, 1} :
          LET shown == [effects EXCEPT !.failDialogs = @ + 1] IN
          IF QuitChosen(choice) THEN
             /\ app' = "aborted"
             /\ isQuitting' = TRUE
             /\ effects' = stopFlaskServerEffects(flaskProcess, shown)
             /\ graceTimers' = stopFlaskServerTimers(flaskProcess, graceTimers)
             /\ UNCHANGED mainWindow
          ELSE
             /\ app' = "ready"
             /\ mainWindow' = "loading"
             /\ effects' = createWindow(shown)
             /\ UNCHANGED <<isQuitting, graceTimers>>
    /\ UNCHANGED <<calc, portDialog, flaskProcess, child, serverStarted, startup,
                   startupTimer, poll>>

\* mainWindow.once('ready-to-show'): show and send 'flask-server-ready'
ReadyToShow ==
    /\ mainWindow = "loading"
    /\ mainWindow' = "shown"
    /\ effects' = [effects EXCEPT !.readySent = @ + 1]
    /\ UNCHANGED <<calc, app, portDialog, isQuitting, flaskProcess, child,
                   serverStarted, startup, startupTimer, poll, graceTimers>>

\* the window is closed while app.isQuitting ('close' not prevented, then
\* 'closed')
WindowClosed ==
    /\ mainWindow # "null"
    /\ isQuitting
    /\ mainWindow' = "null"
    /\ UNCHANGED <<calc, app, portDialog, isQuitting, flaskProcess, child,
                   serverStarted, startup, startupTimer, poll, graceTimers,
                   effects>>

\* app 'activate' with no window left: createWindow again
Activate ==
    /\ app = "ready"
    /\ mainWindow = "null"
    /\ effects.windows < MaxWindows
    /\ mainWindow' = "loading"
    /\ effects' = createWindow(effects)
    /\ UNCHANGED <<calc, app, portDialog, isQuitting, flaskProcess, child,
                   serverStarted, startup, startupTimer, poll, graceTimers>>

\* app 'before-quit' (app.quit() from a menu, the tray or the system)
BeforeQuit ==
    /\ effects.stops < MaxStops
    /\ isQuitting' = TRUE
    /\ effects' = stopFlaskServerEffects(flaskProcess, effects)
    /\ graceTimers' = stopFlaskServerTimers(flaskProcess, graceTimers)
    /\ UNCHANGED <<calc, app, portDialog, flaskProcess, child, serverStarted,
                   startup, startupTimer, poll, mainWindow>>

\* a grace timer that keeps the handle after the forced kill
forceKillKeepsHandle(fp) == fp

\* the grace timer after flaskProcess.kill('SIGKILL'): flaskProcess = null
forceKillDropsHandle(fp) == "null"

\* the grace timer armed by stopFlaskServer fires
GraceTimeout ==
    /\ graceTimers > 0
    /\ graceTimers' = graceTimers - 1
    /\ IF flaskProcess # "null"
       THEN /\ effects' = Kill(flaskProcess, "sigkill", effects)
            /\ flaskProcess' = forceKillDropsHandle(flaskProcess)
       ELSE UNCHANGED <<effects, flaskProcess>>
    /\ UNCHANGED <<calc, app, portDialog, isQuitting, child, serverStarted, startup,
                   startupTimer, poll, mainWindow>>

\* flaskProcess.stdout.on('data') for the chunk output
OnStdout(output) ==
    /\ child \in {"running", "exited"}
    /\ IF IsReadyOutput(output) /\ ~serverStarted
       THEN /\ serverStarted' = TRUE
            /\ poll' = [poll EXCEPT !["sig"] = StartPoll(SigRetries)]
       ELSE UNCHANGED <<serverStarted, poll>>
    /\ UNCHANGED <<app, portDialog, isQuitting, flaskProcess, child, startup,
                   startupTimer, graceTimers, mainWindow, effects>>

ChildStdout ==
    /\ \E output \in StdoutChunks : OnStdout(output)
    /\ UNCHANGED calc

\* flaskProcess.stderr.on('data') for the chunk output
OnStderr(output) ==
    /\ child \in {"running", "exited"}
    /\ IF IsFatalOutput(output) /\ ~serverStarted
       THEN startup' = Settle(startup, "rejected", "fatal")
       ELSE UNCHANGED startup
    /\ UNCHANGED <<app, portDialog, isQuitting, flaskProcess, child,
                   serverStarted, startupTimer, poll, graceTimers, mainWindow,
                   effects>>

ChildStderr ==
    /\ \E output \in StderrChunks : OnStderr(output)
    /\ UNCHANGED calc

\* flaskProcess.on('error'): the spawn failed
ChildError ==
    /\ child = "spawnError"
    /\ child' = "failed"
    /\ IF ~serverStarted
       THEN startup' = Settle(startup, "rejected", "spawnError")
       ELSE UNCHANGED startup
    /\ UNCHANGED <<calc, app, portDialog, isQuitting, flaskProcess, serverStarted,
                   startupTimer, poll, graceTimers, mainWindow, effects>>

\* the child process ends (by itself or by a signal); 'close' is pending
ChildExit ==
    /\ child = "running"
    /\ child' = "exited"
    /\ UNCHANGED <<calc, app, portDialog, isQuitting, flaskProcess, serverStarted,
                   startup, startupTimer, poll, graceTimers, mainWindow,
                   effects>>

\* flaskProcess.on('close')
ChildClose ==
    /\ child \in {"exited", "failed"}
    /\ child' = "closed"
    /\ flaskProcess' = closeHandler(flaskProcess)
    /\ UNCHANGED <<calc, app, portDialog, isQuitting, serverStarted, startup,
                   startupTimer, poll, graceTimers, mainWindow, effects>>

\* the 15 s fallback timer of startFlaskServer fires
StartupTimeout ==
    /\ startupTimer = "armed"
    /\ startupTimer' = "fired"
    /\ IF ~serverStarted
       THEN poll' = [poll EXCEPT !["fallback"] = StartPoll(FallbackRetries)]
       ELSE UNCHANGED poll
    /\ UNCHANGED <<calc, app, portDialog, isQuitting, flaskProcess, child,
                   serverStarted, startup, graceTimers, mainWindow, effects>>

(***************************************************************************)
(* Specifications.  Spec is the whole event loop.  Its state space is the  *)
(* product of the two poll sequences (budgets 10 and 5) with the shutdown  *)
(* and window state, so the claims are checked under three parts of it,    *)
(* each a subset of Spec's behaviours:                                     *)
(*   SpecStartup   the user does not quit: every startup and poll action;  *)
(*   SpecShutdown  the user may quit at any moment; every probe is         *)
(*                 answered and no retry timer fires.  The poll actions    *)
(*                 left out write neither flaskProcess, child, graceTimers *)
(*                 nor the signal counts;                                  *)
(*   SpecPoll      one checkFlaskServer(maxRetries) call on its own, for   *)
(*                 every maxRetries in 1..MaxBudget.                       *)
(* The main process is modelled as running on after before-quit (Electron  *)
(* lets a window cancel the quit), so timers armed before the quit may     *)
(* still fire.                                                             *)
(***************************************************************************)
SigPoll == PollStep("sig")
FallbackPoll == PollStep("fallback")

Next ==
    \/ WhenReady
    \/ StartupSettled
    \/ ReadyToShow
    \/ WindowClosed
    \/ Activate
    \/ BeforeQuit
    \/ GraceTimeout
    \/ ChildStdout
    \/ ChildStderr
    \/ ChildError
    \/ ChildExit
    \/ ChildClose
    \/ StartupTimeout
    \/ SigPoll
    \/ FallbackPoll

Spec == Init /\ [][Next]_vars

\* the runs in which the user does not quit
NextStartup ==
    \/ WhenReady
    \/ StartupSettled
    \/ ReadyToShow
    \/ ChildStdout
    \/ ChildStderr
    \/ ChildError
    \/ ChildExit
    \/ ChildClose
    \/ StartupTimeout
    \/ SigPoll
    \/ FallbackPoll

SpecStartup == Init /\ [][NextStartup]_vars

\* startFlaskServer from its call to its settlement: the startup runs
\* without what the whenReady handler does after the await
NextLive ==
    \/ WhenReady
    \/ ChildStdout
    \/ ChildStderr
    \/ ChildError
    \/ ChildExit
    \/ ChildClose
    \/ StartupTimeout
    \/ SigPoll
    \/ FallbackPoll

\* fair scheduling: a timer that is due fires, a probe that is in flight
\* ends (response, error or its 2 s timeout), and the 'error' event of a
\* failed spawn or of a destroyed request is delivered.  Nothing is assumed
\* about the child: it may write nothing and may never exit.
Fairness ==
    /\ WF_vars(StartupTimeout)
    /\ WF_vars(SigPoll)
    /\ WF_vars(FallbackPoll)
    /\ WF_vars(ChildError)

SpecLive == Init /\ [][NextLive]_vars /\ Fairness

\* the runs in which every health probe is answered and no retry timer
\* fires, with the user free to quit at any moment
SigFirstProbe == ProbeResponse("sig")
FallbackFirstProbe == ProbeResponse("fallback")

NextShutdown ==
    \/ WhenReady
    \/ StartupSettled
    \/ ReadyToShow
    \/ WindowClosed
    \/ Activate
    \/ BeforeQuit
    \/ GraceTimeout
    \/ ChildStdout
    \/ ChildStderr
    \/ ChildError
    \/ ChildExit
    \/ ChildClose
    \/ StartupTimeout
    \/ SigFirstProbe
    \/ FallbackFirstProbe

SpecShutdown == Init /\ [][NextShutdown]_vars

(***************************************************************************)
(* Specifications of the start-up computations.  Each draws the inputs of  *)
(* one function in its initial state, keeps them in calc and applies the   *)
(* function in one action; the event loop stays in its initial state.      *)
(***************************************************************************)
Supervisor == <<app, portDialog, isQuitting, flaskProcess, child,
                serverStarted, startup, startupTimer, poll, graceTimers,
                mainWindow, effects>>

Idle ==
    /\ app = "launching"
    /\ portDialog = -1
    /\ isQuitting = FALSE
    /\ flaskProcess = "null"
    /\ child = "none"
    /\ serverStarted = FALSE
    /\ startup = NoStartup
    /\ startupTimer = "unarmed"
    /\ poll = [s \in Seqs |-> IdlePoll]
    /\ graceTimers = 0
    /\ mainWindow = "null"
    /\ effects = NoEffects

SeqsUpTo(S, n) == UNION {[1..k -> S] : k \in 1..n}

\* lines a .env file is drawn from
LineA1 == <<"A", "=", "1">>
LineComment == <<"#", " ", "c">>
LineBlank == <<>>
LineB23 == <<"B", "=", "2", "=", "3">>
LineA9 == <<"A", "=", "9">>
LineSpaced == <<" ", "A", " ", "=", " ", "7", " ", "\r">>
LineNoKey == <<"=", "x">>
LineNoEq == <<"A">>
LineIndentedComment == <<" ", "#", "B", "=", "1">>

SampleLines == {LineA1, LineComment, LineBlank, LineB23, LineA9, LineSpaced,
                LineNoKey, LineNoEq, LineIndentedComment}

\* the file of four lines A=1, # c, blank, B=2=3, and the same with A=9
\* appended
ExampleFile == <<LineA1, LineComment, LineBlank, LineB23>>
ExampleFileA9 == ExampleFile \o <<LineA9>>

\* the .env file before the main script is loaded
InitEnvFile ==
    /\ Idle
    /\ \E exists \in BOOLEAN,
          lines \in SeqsUpTo(SampleLines, MaxEnvLines)
                      \cup {ExampleFile, ExampleFileA9} :
         calc = [fn |-> "loadEnvFile", exists |-> exists, lines |-> lines,
                 envContent |-> Join(lines, "\n"), envVars |-> EmptyEnv,
                 done |-> FALSE]

\* const envVars = loadEnvFile()
LoadEnvFile ==
    /\ calc.fn \in {"loadEnvFile", "flaskEnv"}
    /\ ~calc.done
    /\ calc' = [calc EXCEPT
                  !.envVars = loadEnvFile(calc.exists, calc.envContent),
                  !.done = TRUE]
    /\ UNCHANGED Supervisor

NextEnvFile == LoadEnvFile

SpecEnvFile == InitEnvFile /\ [][NextEnvFile]_vars

\* lines of a .env file that redefine the port and the host
LinePort9 == KeyPort \o <<"=", "9">>
LineHostH == KeyHost \o <<"=", "h">>

OverlayLines == {LinePort9, LineHostH, LineA1, LineComment}

\* inherited environments: FLASK_PORT unset, empty or '8'; FLASK_HOST unset
\* or 'x'; A unset or '0'
ProcessEnvs ==
    {Spread(Spread(p, h), a) :
        p \in {EmptyEnv, Put(EmptyEnv, KeyPort, <<>>),
               Put(EmptyEnv, KeyPort, <<"8">>)},
        h \in {EmptyEnv, Put(EmptyEnv, KeyHost, <<"x">>)},
        a \in {EmptyEnv, Put(EmptyEnv, <<"A">>, <<"0">>)}}

\* the inherited environment and the .env file before the main script runs
InitFlaskEnv ==
    /\ Idle
    /\ \E exists \in BOOLEAN, isDev \in BOOLEAN, processEnv \in ProcessEnvs,
          lines \in SeqsUpTo(OverlayLines, MaxEnvLines) :
         calc = [fn |-> "flaskEnv", exists |-> exists, lines |-> lines,
                 envContent |-> Join(lines, "\n"), envVars |-> EmptyEnv,
                 done |-> FALSE, processEnv |-> processEnv, isDev |-> isDev,
                 flaskEnv |-> EmptyEnv, target |-> probeTarget(processEnv),
                 built |-> FALSE]

\* startFlaskServer builds the environment of the child
BuildFlaskEnv ==
    /\ calc.fn = "flaskEnv"
    /\ calc.done
    /\ ~calc.built
    /\ calc' = [calc EXCEPT
                  !.flaskEnv = flaskEnv(calc.processEnv, calc.envVars,
                                        calc.isDev),
                  !.built = TRUE]
    /\ UNCHANGED Supervisor

NextFlaskEnv ==
    \/ LoadEnvFile
    \/ BuildFlaskEnv

SpecFlaskEnv == InitFlaskEnv /\ [][NextFlaskEnv]_vars

\* the platform and the interpreters whose `--version` succeeds
InitResolve ==
    /\ Idle
    /\ \E platform \in Platforms, working \in SUBSET AllCommands :
         calc = [fn |-> "getPythonPath", platform |-> platform,
                 working |-> working, pythonPath |-> "unset"]

\* the app.whenReady handler on that machine; pythonPath is what
\* getPythonPath returned to startFlaskServer ("throw" when it threw)
ResolveAndStart ==
    /\ calc.fn = "getPythonPath"
    /\ WhenReadyOn({calc.platform}, {calc.working})
    /\ calc' = IF app' = "starting"
               THEN [calc EXCEPT !.pythonPath =
                        getPythonPath(calc.platform, calc.working)]
               ELSE calc

NextResolve ==
    \/ ResolveAndStart
    \/ StartupSettled
    \/ ReadyToShow
    \/ ChildStderr
    \/ ChildError
    \/ ChildExit
    \/ ChildClose

SpecResolve == InitResolve /\ [][NextResolve]_vars

\* the startup runs with a record of the stderr chunks: fatalWhilePending
\* is set when a chunk with a fatal substring arrives while the
\* startFlaskServer promise is pending
InitStderr ==
    /\ Idle
    /\ calc = [fn |-> "stderr", fatalWhilePending |-> FALSE]

ChildStderrLogged ==
    \E output \in StderrChunks :
       /\ OnStderr(output)
       /\ calc' = [calc EXCEPT !.fatalWhilePending =
                      @ \/ (IsFatalOutput(output)
                               /\ startup.state = "pending")]

NextStderr ==
    \/ WhenReady
    \/ StartupSettled
    \/ ReadyToShow
    \/ ChildStdout
    \/ ChildStderrLogged
    \/ ChildError
    \/ ChildExit
    \/ ChildClose
    \/ StartupTimeout
    \/ SigPoll
    \/ FallbackPoll

SpecStderr == InitStderr /\ [][NextStderr]_vars

\* the text of each readiness substring
PatternText(p) ==
    IF p = "Running on" THEN
        <<"R", "u", "n", "n", "i", "n", "g", " ", "o", "n">>
    ELSE IF p = "Serving Flask" THEN
        <<"S", "e", "r", "v", "i", "n", "g", " ", "F", "l", "a", "s", "k">>
    ELSE
        <<"S", "e", "r", "v", "e", "r", " ", "s", "t", "a", "r", "t", "i",
          "n", "g">>

\* String.prototype.includes on a text
IncludesText(text, pattern) ==
    \E i \in 0..(Len(text) - Len(pattern)) :
       SubSeq(text, i + 1, i + Len(pattern)) = pattern

\* the readiness substrings a chunk of text contains
Signatures(text) ==
    {p \in ReadyPatterns : IncludesText(text, PatternText(p))}

\* outputs of the child: one matching line, a matching line followed by
\* another line, two matching lines, no matching line
OutputRunning ==
    <<"R", "u", "n", "n", "i", "n", "g", " ", "o", "n", "\n">>
OutputServing ==
    <<"S", "e", "r", "v", "i", "n", "g", " ", "F", "l", "a", "s", "k",
      "\n", "o", "k", "\n">>
OutputTwoMatches ==
    <<"S", "e", "r", "v", "e", "r", " ", "s", "t", "a", "r", "t", "i", "n",
      "g", "\n", "R", "u", "n", "n", "i", "n", "g", " ", "o", "n", "\n">>
OutputNoMatch ==
    <<"b", "o", "o", "t", "\n">>

SampleOutputs == {OutputRunning, OutputServing, OutputTwoMatches,
                  OutputNoMatch}

\* the sets of at most n cut places within a text
RECURSIVE CutSets(_, _)
CutSets(text, n) ==
    IF n = 0 THEN {{}}
    ELSE CutSets(text, n - 1)
         \cup {c \cup {a} : c \in CutSets(text, n - 1),
                            a \in 1..(Len(text) - 1)}

\* the data events of a text cut after the places in cuts
RECURSIVE SplitAt(_, _, _)
SplitAt(text, from, cuts) ==
    IF cuts = {} THEN <<SubSeq(text, from, Len(text))>>
    ELSE LET c == CHOOSE x \in cuts : \A y \in cuts : x <= y
         IN <<SubSeq(text, from, c)>> \o SplitAt(text, c + 1, cuts \ {c})

\* the child has just been spawned and its output is about to arrive in
\* the chunks of calc
InitChunks ==
    /\ app = "starting"
    /\ portDialog = -1
    /\ isQuitting = FALSE
    /\ flaskProcess = "child"
    /\ child = "running"
    /\ serverStarted = FALSE
    /\ startup = [state |-> "pending", reason |-> "none", early |-> FALSE]
    /\ startupTimer = "armed"
    /\ poll = [s \in Seqs |-> IdlePoll]
    /\ graceTimers = 0
    /\ mainWindow = "null"
    /\ effects = [NoEffects EXCEPT !.spawns = 1]
    /\ \E text \in SampleOutputs :
         \E cuts \in CutSets(text, MaxCuts) :
            calc = [fn |-> "stdout", text |-> text,
                    chunks |-> SplitAt(text, 1, cuts), starts |-> 0]

\* flaskProcess.stdout.on('data') for the next chunk of the output; starts
\* counts how often the handler set serverStarted
StdoutData ==
    /\ calc.fn = "stdout"
    /\ calc.chunks # <<>>
    /\ OnStdout(Signatures(Head(calc.chunks)))
    /\ calc' = [calc EXCEPT
                  !.chunks = Tail(@),
                  !.starts = IF serverStarted' /\ ~serverStarted
                             THEN @ + 1 ELSE @]

NextChunks == StdoutData

SpecChunks == InitChunks /\ [][NextChunks]_vars

\* ----------------------------------------------------------- claims

\* C1 (as stated): whenever isPortAvailable reports the port occupied, no
\* child process is ever spawned in that run, whichever button is picked.
C1_NoSpawnWhenOccupied == portDialog # -1 => effects.spawns = 0

\* C1 (amended): when the port is reported occupied and the user picks
\* Quitter (button 0), no child process is ever spawned in that run and no
\* handle is held; a spawn in a run whose port was reported occupied happens
\* only after the user picked Reessayer (button 1).
C1_NoSpawnAfterQuitter ==
    /\ portDialog = 0 =>
          effects.spawns = 0 /\ flaskProcess = "null" /\ child = "none"
    /\ (portDialog # -1 /\ effects.spawns > 0) => portDialog = 1

C1_Witness ==
    /\ portDialog = 0
    /\ app = "aborted"
    /\ effects.stops > 0
    /\ effects.spawns = 0

\* C2: when a readiness substring was seen on stdout and a probe of the
\* signature-triggered checkFlaskServer(10) call returns 200 (after N < 10
\* failing probes), startFlaskServer is resolved, unless it had already been
\* rejected by a fatal stderr line, a spawn error or the fallback poll.
C2_ReadyThenProbeOk ==
    (poll["sig"].ok200
        /\ startup.reason \notin {"fatal", "spawnError", "notInTime"})
    => startup.state = "resolved"

\* C3: when a fatal stderr line rejects the startup before any readiness
\* substring and before the 15 s timer fires, no checkFlaskServer call ever
\* issues its full budget of probes in that run.
C3_FatalShortCircuits ==
    (startup.reason = "fatal" /\ startup.early)
    => \A s \in {"sig", "fallback"} :
          poll[s].st = "idle" \/ poll[s].probes < poll[s].max

\* C4: the poll started by the 15 s timer has a budget of 5, and when one of
\* its probes returns 200 the startup succeeds, unless it had already been
\* rejected by a fatal stderr line, a spawn error or the signature poll.
C4_FallbackProbeOk ==
    /\ poll["fallback"].st # "idle" => poll["fallback"].max = FallbackRetries
    /\ (poll["fallback"].ok200
          /\ startup.reason \notin {"fatal", "spawnError", "notResponding"})
       => startup.state = "resolved"

\* C5: a checkFlaskServer(maxRetries) call that has seen no 200 is rejected
\* only after it has issued exactly maxRetries probes.
C5_RejectAfterExactlyMaxProbes ==
    (poll["direct"].st = "rejected" /\ ~poll["direct"].ok200)
    => poll["direct"].probes = poll["direct"].max

\* C6: SIGKILL is sent only by a grace timer that finds the handle of a
\* child whose close event has not arrived, and that timer then drops the
\* handle; a grace timer that fires while the child has not exited and no
\* SIGKILL was sent yet sends it; once the close event has been handled no
\* SIGKILL is sent any more.
C6_GraceKill ==
    [][ /\ (effects'.sigkill # effects.sigkill =>
              /\ effects'.sigkill = effects.sigkill + 1
              /\ graceTimers' = graceTimers - 1
              /\ flaskProcess = "child"
              /\ child # "closed"
              /\ flaskProcess' = "null")
        /\ ((graceTimers' < graceTimers /\ child = "running"
                /\ effects.sigkill = 0) =>
              /\ effects'.sigkill = 1
              /\ flaskProcess' = "null")
        /\ (child = "closed" => effects'.sigkill = effects.sigkill)
      ]_vars

C6_Witness ==
    /\ effects.sigkill = 1
    /\ effects.sigterm = 1
    /\ flaskProcess = "null"
    /\ child = "running"
    /\ graceTimers = 0

\* C7: no call of stopFlaskServer throws, and a call made while no handle
\* is held sends no signal, arms no timer and leaves the supervisor's state
\* as it was.
C7_StopIsSafe ==
    [][ /\ ~effects'.threw
        /\ ((effects'.stops # effects.stops /\ flaskProcess = "null") =>
              /\ effects'.sigterm = effects.sigterm
              /\ effects'.sigkill = effects.sigkill
              /\ UNCHANGED <<graceTimers, flaskProcess, child, serverStarted,
                             startup, startupTimer, poll>>)
      ]_vars

C7_Witness ==
    /\ effects.stops = 2
    /\ effects.sigterm = 1
    /\ flaskProcess = "null"
    /\ child = "closed"
    /\ ~effects.threw

\* C8: the signature-triggered and the timeout-triggered checkFlaskServer
\* calls are never in progress at the same time.
C8_OnePollAtATime ==
    ~(poll["sig"].st = "pending" /\ poll["fallback"].st = "pending")

\* C9: 'flask-server-ready' is sent at most once, and only in a run whose
\* startFlaskServer promise was resolved.
C9_ReadyOnlyAfterRunning ==
    /\ effects.readySent <= 1
    /\ effects.readySent > 0 => startup.state = "resolved"

\* C10: when the child's close event arrives after startFlaskServer was
\* resolved and without a stop request, the exit is reported to the
\* collaborator layer.
C10_UnexpectedExitReported ==
    [][ (startup.state = "resolved" /\ effects.stops = 0
            /\ child # "closed" /\ child' = "closed")
        => effects'.exitReports > effects.exitReports ]_vars

\* the first '=' of a line that has one
C11_FirstEq(t) ==
    CHOOSE n \in 1..Len(t) : t[n] = "=" /\ \A j \in 1..(n - 1) : t[j] # "="

C11_HasEq(t) == \E n \in 1..Len(t) : t[n] = "="

C11_Before(t) == SubSeq(t, 1, C11_FirstEq(t) - 1)
C11_After(t) == SubSeq(t, C11_FirstEq(t) + 1, Len(t))

\* C11 (as stated): every line that is neither blank nor starts with '#' and
\* holds an '=' defines the key that is the text before its first '=', and
\* the last such line of a key gives it the value that is everything after
\* that '='.
C11_KeyIsTextBeforeFirstEq ==
    (calc.fn = "loadEnvFile" /\ calc.done /\ calc.exists) =>
    LET ls == calc.lines
        kv == {i \in 1..Len(ls) :
                 /\ Trim(ls[i]) # <<>>
                 /\ ls[i][1] # "#"
                 /\ C11_HasEq(ls[i])}
    IN \A i \in kv :
         /\ C11_Before(ls[i]) \in DOMAIN calc.envVars
         /\ (\A j \in kv : j > i => C11_Before(ls[j]) # C11_Before(ls[i]))
              => calc.envVars[C11_Before(ls[i])] = C11_After(ls[i])

\* C11 (amended): loadEnvFile strips the white space around each line;
\* a stripped line that is empty, starts with '#', holds no '=' or has
\* nothing before its first '=' is ignored; every other line defines the key
\* that is the text before its first '=' and the value that is everything
\* after it, both stripped of surrounding white space; the result holds
\* exactly these keys, each with the value of its last line.  The lines A=1,
\* '# c', blank, B=2=3 yield exactly {A: '1', B: '2=3'}, and with A=9
\* appended A is '9'.  A missing file yields {}.
C11_ParsesKeyValueLines ==
    (calc.fn = "loadEnvFile" /\ calc.done) =>
    LET ls == [i \in 1..Len(calc.lines) |-> Trim(calc.lines[i])]
        kv == {i \in 1..Len(ls) :
                 /\ ls[i] # <<>>
                 /\ ls[i][1] # "#"
                 /\ C11_HasEq(ls[i])
                 /\ C11_FirstEq(ls[i]) > 1}
        key(i) == Trim(C11_Before(ls[i]))
        value(i) == Trim(C11_After(ls[i]))
    IN /\ ~calc.exists => calc.envVars = EmptyEnv
       /\ calc.exists =>
            /\ DOMAIN calc.envVars = {key(i) : i \in kv}
            /\ \A i \in kv :
                  (\A j \in kv : j > i => key(j) # key(i))
                  => calc.envVars[key(i)] = value(i)
            /\ calc.lines = ExampleFile =>
                  calc.envVars =
                     [k \in {<<"A">>, <<"B">>} |->
                        IF k = <<"A">> THEN <<"1">> ELSE <<"2", "=", "3">>]
            /\ calc.lines = ExampleFileA9 =>
                  calc.envVars =
                     [k \in {<<"A">>, <<"B">>} |->
                        IF k = <<"A">> THEN <<"9">> ELSE <<"2", "=", "3">>]

C11_Witness ==
    /\ calc.fn = "loadEnvFile"
    /\ calc.done
    /\ calc.exists
    /\ calc.lines = ExampleFileA9
    /\ calc.envVars[<<"A">>] = <<"9">>
    /\ calc.envVars[<<"B">>] = <<"2", "=", "3">>

\* C12: the child's environment holds every inherited variable, every
\* variable of the .env file and the explicit ones; a variable of the file
\* overrides the inherited one and an explicit one overrides both, so the
\* child's FLASK_PORT and FLASK_HOST are the port (as text) and the host of
\* the supervisor's probe target, whatever the file defines.
C12_ExplicitOverridesWin ==
    (calc.fn = "flaskEnv" /\ calc.built) =>
    LET explicit == {KeyPort, KeyHost, KeyDebug, KeyUnbuffered}
        portText == IF "str" \in DOMAIN calc.target.port
                    THEN calc.target.port.str
                    ELSE IF calc.target.port.num = 5000
                         THEN <<"5", "0", "0", "0">>
                         ELSE <<>>
    IN /\ DOMAIN calc.flaskEnv =
             DOMAIN calc.processEnv \cup DOMAIN calc.envVars \cup explicit
       /\ calc.flaskEnv[KeyPort] = portText
       /\ calc.flaskEnv[KeyHost] = calc.target.hostname.str
       /\ \A k \in DOMAIN calc.flaskEnv \ explicit :
             calc.flaskEnv[k] = IF k \in DOMAIN calc.envVars
                                THEN calc.envVars[k]
                                ELSE calc.processEnv[k]

C12_Witness ==
    /\ calc.fn = "flaskEnv"
    /\ calc.built
    /\ KeyPort \in DOMAIN calc.envVars
    /\ calc.envVars[KeyPort] = <<"9">>
    /\ calc.flaskEnv[KeyPort] = <<"5", "0", "0", "0">>
    /\ KeyHost \in DOMAIN calc.envVars
    /\ calc.envVars[KeyHost] = <<"h">>
    /\ KeyHost \in DOMAIN calc.processEnv
    /\ calc.flaskEnv[KeyHost] = <<"x">>
    /\ <<"A">> \in DOMAIN calc.processEnv
    /\ <<"A">> \in DOMAIN calc.envVars
    /\ calc.processEnv[<<"A">>] = <<"0">>
    /\ calc.flaskEnv[<<"A">>] = <<"1">>

\* C13: getPythonPath returns the first candidate, in the order python,
\* python3, py on win32 and python3, python elsewhere, whose version probe
\* succeeds, never a later one; when no candidate succeeds it throws,
\* startFlaskServer is rejected with the executable-not-found error and
\* stays rejected, and no child process is spawned.
C13_FirstWorkingCandidate ==
    (calc.fn = "getPythonPath" /\ calc.pythonPath # "unset") =>
    LET cmds == IF calc.platform = "win32"
                THEN <<"python", "python3", "py">>
                ELSE <<"python3", "python">>
    IN IF \E i \in 1..Len(cmds) : cmds[i] \in calc.working
       THEN /\ \E i \in 1..Len(cmds) :
                 /\ calc.pythonPath = cmds[i]
                 /\ cmds[i] \in calc.working
                 /\ \A j \in 1..(i - 1) : cmds[j] \notin calc.working
            /\ startup.reason # "pythonNotFound"
       ELSE /\ calc.pythonPath = "throw"
            /\ startup.state = "rejected"
            /\ startup.reason = "pythonNotFound"
            /\ effects.spawns = 0
            /\ flaskProcess = "null"
            /\ child = "none"

C13_Witness ==
    /\ calc.fn = "getPythonPath"
    /\ calc.platform = "win32"
    /\ calc.working = {"python3", "py"}
    /\ calc.pythonPath = "python3"
    /\ effects.spawns = 1
    /\ child = "running"

\* C14: once a chunk with a fatal substring has arrived on stderr while the
\* startup was neither confirmed nor failed (also after a readiness substring
\* was seen and the signature poll is in progress), startFlaskServer is
\* rejected with that output as the reason.
C14_FatalAlwaysFails ==
    (calc.fn = "stderr" /\ calc.fatalWhilePending)
    => (startup.state = "rejected" /\ startup.reason = "fatal")

\* C15: after stopFlaskServer has signalled the child while the
\* startFlaskServer promise was pending, no checkFlaskServer call issues a
\* probe and the promise is neither resolved nor rejected.
C15_StopCancelsStartup ==
    [][ (effects.sigterm > 0 /\ startup.state = "pending") =>
           /\ \A s \in {"sig", "fallback"} :
                 poll'[s].probes = poll[s].probes
           /\ startup'.state = "pending" ]_vars

\* C16: within one checkFlaskServer call, no probe is issued after a probe
\* has returned 200, and the retry counter never exceeds the number of
\* probes that have ended (each probe is counted at most once).
C16_OneCountPerProbe ==
    [][ /\ poll["direct"].ok200 =>
              poll'["direct"].probes = poll["direct"].probes
        /\ poll'["direct"].retries
              <= poll'["direct"].probes - poll'["direct"].inflight ]_vars

\* C17: startFlaskServer is resolved only in the step in which a
\* checkFlaskServer call (the signature one or the fallback one) resolves
\* because one of its probes returned 200.
C17_RunningOnlyAfterProbe ==
    [][ (startup.state # "resolved" /\ startup'.state = "resolved") =>
           \E s \in {"sig", "fallback"} :
              /\ poll[s].st = "pending"
              /\ poll'[s].st = "resolved"
              /\ poll'[s].ok200 ]_vars

C17_Witness ==
    /\ startup.state = "resolved"
    /\ poll["fallback"].st = "resolved"
    /\ poll["fallback"].ok200
    /\ poll["fallback"].probes > 1
    /\ poll["sig"].st = "idle"

\* C18: once startFlaskServer is rejected or resolved, no later event (a
\* late successful probe, a late readiness substring, a probe failure, a
\* fatal stderr chunk, a process error) changes its outcome or its reason.
C18_OutcomeAbsorbing ==
    [][ startup.state \in {"resolved", "rejected"} => startup' = startup
      ]_vars

C18_Witness ==
    /\ startup.state = "rejected"
    /\ startup.reason = "fatal"
    /\ poll["fallback"].st = "resolved"
    /\ poll["fallback"].ok200
    /\ serverStarted

\* C19: in one run at most one child process is ever spawned (so two
\* children never live at the same time): startFlaskServer does not run
\* again after a startup failure, after the user continues without the
\* service, after the child has exited or when a window is created again.
C19_SpawnAtMostOnce ==
    /\ effects.spawns <= 1
    /\ effects.spawns = 0 <=> child = "none"
    /\ flaskProcess = "child" => effects.spawns = 1

C19_Witness ==
    /\ effects.spawns = 1
    /\ startup.state = "rejected"
    /\ app = "ready"
    /\ child = "closed"
    /\ flaskProcess = "null"
    /\ effects.windows = 2

\* C20: however the child's output is cut into data events, once all of
\* them have been handled the signature flag is set, and was set exactly
\* once, if and only if the output contains a readiness substring.
C20_ChunkingIndependent ==
    /\ (calc.fn = "stdout" /\ calc.chunks = <<>>) =>
          IF \E p \in ReadyPatterns : IncludesText(calc.text, PatternText(p))
          THEN serverStarted /\ calc.starts = 1
               /\ poll["sig"].st = "pending"
          ELSE ~serverStarted /\ calc.starts = 0
    /\ calc.fn = "stdout" => calc.starts <= 1

\* C21: the port verdict (and the choice made in the port-occupied dialog)
\* is obtained only after getPythonPath has resolved an executable, and a
\* child is spawned only after both.
C21_ResolveBeforePortCheck ==
    calc.fn = "getPythonPath" =>
       /\ portDialog # -1 => calc.pythonPath \notin {"unset", "throw"}
       /\ effects.spawns > 0 =>
             (app # "launching" /\ calc.pythonPath \notin {"unset", "throw"})

\* C22: under fair scheduling every startFlaskServer promise that is
\* pending is eventually resolved or rejected, whatever the child does.
C22_StartupSettles ==
    startup.state = "pending" ~> startup.state \in {"resolved", "rejected"}

C22_Witness ==
    /\ startup.state = "rejected"
    /\ startup.reason = "notInTime"
    /\ ~serverStarted
    /\ child = "running"
    /\ poll["sig"].st = "idle"

\* C23: in the step in which startFlaskServer is resolved, the child it
\* spawned is alive: its close event has not been handled and the handle
\* flaskProcess is held.
C23_RunningImpliesChildAlive ==
    [][ (startup.state # "resolved" /\ startup'.state = "resolved") =>
           /\ child' \in {"running", "exited"}
           /\ flaskProcess' = "child" ]_vars

\* C24: however many stopFlaskServer calls, grace timers and the child's
\* close event interleave, SIGKILL is sent at most once, and once the close
\* event has been handled neither SIGTERM nor SIGKILL is sent.
C24_SignalsBounded ==
    [][ /\ effects'.sigkill <= 1
        /\ child = "closed" =>
              /\ effects'.sigterm = effects.sigterm
              /\ effects'.sigkill = effects.sigkill ]_vars

C24_Witness ==
    /\ effects.stops = 2
    /\ effects.sigterm = 2
    /\ effects.sigkill = 1
    /\ graceTimers = 0
    /\ child = "closed"

====
